---- MODULE Spec2Model ----
(***************************************************************************)
(* A model of the coordinate type (src/coord.rs) and of the two grid      *)
(* backends, HashGrid (src/grid/hash_grid.rs) and LinearGrid              *)
(* (src/grid/linear_grid.rs).  Every method is an operator computed as    *)
(* the code computes it; every action applies one method to the current   *)
(* state.  Arithmetic keeps the width of the numeric type: `a - b`,       *)
(* `a + b` and `a * b` panic in a debug build and wrap in a release       *)
(* build, checked_add / checked_sub yield None.                            *)
(***************************************************************************)
EXTENDS Integers, Sequences, FiniteSets, TLC

VARIABLES T, debug, hg, written, lg, args, ret

vars == <<T, debug, hg, written, lg, args, ret>>

(***************************************************************************)
(* Bounds of the model.                                                    *)
(***************************************************************************)
\* the keys of the HashGrid runs are the corners of the square 0..MaxCoord,
\* the values given to the bound setters range over 0..MaxCoord
MaxCoord == 1
\* the HashGrid runs hold at most MaxEntries entries
MaxEntries == 2
\* LinearGrid runs have width and height in 1..MaxDim
MaxDim == 2
\* numeric inputs lie within Near of 0, of T::MIN and of T::MAX
Near == 1
\* points_are_linear gets at most MaxPoints points with components 0..MaxPt
MaxPoints == 4
MaxPt == 2

(***************************************************************************)
(* Numeric types T: GridNum, and the values V stored in a grid.            *)
(***************************************************************************)
U8 == [lo |-> 0, hi |-> 255]
I16 == [lo |-> -32768, hi |-> 32767]

InT(v) == T.lo <= v /\ v <= T.hi

\* two's complement wrap of v into T (the release build's `+`, `-`, `*`)
Wrap(v) == ((v - T.lo) % (T.hi - T.lo + 1)) + T.lo

Values == {10, 99}

Unit == <<>>
None == [tag |-> "None"]
Some(v) == [tag |-> "Some", val |-> v]
Ok(v) == [tag |-> "Ok", val |-> v]
Err(msg) == [tag |-> "Err", msg |-> msg]
\* the thread panics: arithmetic overflow with overflow checks on, or
\* Option::unwrap on None
Panic == [tag |-> "Panic"]

Coord(px, py) == <<px, py>>
x(c) == c[1]
y(c) == c[2]

(***************************************************************************)
(* HashGrid                                                                *)
(***************************************************************************)
HashGrid_new ==
  [data |-> <<>>, min_x |-> None, max_x |-> None, min_y |-> None, max_y |-> None]

set_min_x(self, v) == [self EXCEPT !.min_x = Some(v)]
set_max_x(self, v) == [self EXCEPT !.max_x = Some(v)]
set_min_y(self, v) == [self EXCEPT !.min_y = Some(v)]
set_max_y(self, v) == [self EXCEPT !.max_y = Some(v)]

HashGrid_clear(self) == [self EXCEPT !.data = <<>>]

\* check_bounds without its last check, the one against max_y
HashGrid_check_bounds_no_max_y(self, key) ==
  IF ~debug THEN Ok(Unit)
  ELSE IF self.min_x.tag = "Some" /\ x(key) < self.min_x.val
    THEN Err("Key x-coordinate is less than minimum x-coordinate")
  ELSE IF self.max_x.tag = "Some" /\ x(key) > self.max_x.val
    THEN Err("Key x-coordinate is greater than maximum x-coordinate")
  ELSE IF self.min_y.tag = "Some" /\ y(key) < self.min_y.val
    THEN Err("Key y-coordinate is less than minimum y-coordinate")
  ELSE Ok(Unit)

\* the checks are compiled only under cfg(debug_assertions)
HashGrid_check_bounds(self, key) ==
  IF ~debug THEN Ok(Unit)
  ELSE IF self.min_x.tag = "Some" /\ x(key) < self.min_x.val
    THEN Err("Key x-coordinate is less than minimum x-coordinate")
  ELSE IF self.max_x.tag = "Some" /\ x(key) > self.max_x.val
    THEN Err("Key x-coordinate is greater than maximum x-coordinate")
  ELSE IF self.min_y.tag = "Some" /\ y(key) < self.min_y.val
    THEN Err("Key y-coordinate is less than minimum y-coordinate")
  ELSE IF self.max_y.tag = "Some" /\ y(key) > self.max_y.val
    THEN Err("Key y-coordinate is greater than maximum y-coordinate")
  ELSE Ok(Unit)

\* HashMap::insert: the key maps to value afterwards
MapInsert(m, key, value) ==
  [k \in (DOMAIN m) \cup {key} |-> IF k = key THEN value ELSE m[k]]

\* HashMap::remove
MapRemove(m, key) == [k \in (DOMAIN m) \ {key} |-> m[k]]

\* HashMap::get
MapGet(m, key) == IF key \in DOMAIN m THEN Some(m[key]) ELSE None

\* insert written with entry(key).or_insert(value): an occupied key keeps
\* its value
HashGrid_insert_keeps_old(self, key, value) ==
  LET b == HashGrid_check_bounds(self, key) IN
  IF b.tag = "Err" THEN [self |-> self, ret |-> b]
  ELSE IF key \in DOMAIN self.data THEN [self |-> self, ret |-> Ok(Unit)]
  ELSE [self |-> [self EXCEPT !.data = MapInsert(self.data, key, value)],
        ret |-> Ok(Unit)]

HashGrid_insert(self, key, value) ==
  LET b == HashGrid_check_bounds(self, key) IN
  IF b.tag = "Err" THEN [self |-> self, ret |-> b]
  ELSE [self |-> [self EXCEPT !.data = MapInsert(self.data, key, value)],
        ret |-> Ok(Unit)]

\* insert_or_ignore written with data.insert(key, value): an occupied key
\* is overwritten
HashGrid_insert_or_ignore_overwrites(self, key, value) ==
  LET b == HashGrid_check_bounds(self, key) IN
  IF b.tag = "Err" THEN [self |-> self, ret |-> b]
  ELSE [self |-> [self EXCEPT !.data = MapInsert(self.data, key, value)],
        ret |-> Ok(Unit)]

HashGrid_insert_or_ignore(self, key, value) ==
  LET b == HashGrid_check_bounds(self, key) IN
  IF b.tag = "Err" THEN [self |-> self, ret |-> b]
  ELSE IF key \in DOMAIN self.data THEN [self |-> self, ret |-> Ok(Unit)]
  ELSE [self |-> [self EXCEPT !.data = MapInsert(self.data, key, value)],
        ret |-> Ok(Unit)]

HashGrid_get(self, key) ==
  IF HashGrid_check_bounds(self, key).tag = "Err" THEN None
  ELSE MapGet(self.data, key)

HashGrid_remove(self, key) ==
  IF HashGrid_check_bounds(self, key).tag = "Err"
  THEN [self |-> self, ret |-> None]
  ELSE [self |-> [self EXCEPT !.data = MapRemove(self.data, key)],
        ret |-> MapGet(self.data, key)]

HashGrid_contains_key(self, key) ==
  IF HashGrid_check_bounds(self, key).tag = "Err" THEN FALSE
  ELSE key \in DOMAIN self.data

\* `coord.y() - step` is a plain subtraction
HashGrid_up_n(self, coord, step) ==
  LET d == y(coord) - step IN
  IF ~InT(d) /\ debug THEN Panic
  ELSE LET new_coord == Coord(x(coord), Wrap(d)) IN
       IF HashGrid_check_bounds(self, new_coord).tag = "Err" THEN None
       ELSE MapGet(self.data, new_coord)

HashGrid_matches(self, key, value) ==
  LET b == HashGrid_check_bounds(self, key) IN
  IF b.tag = "Err" THEN b
  ELSE IF key \in DOMAIN self.data THEN Ok(self.data[key] = value)
  ELSE Ok(FALSE)

(***************************************************************************)
(* HashGrid runs: a grid built by HashGrid::new(), then any sequence of    *)
(* the builder setters and the Grid methods, in a debug build, where       *)
(* check_bounds checks.  ret records the last call: every call its result, *)
(* insert and insert_or_ignore their arguments as well.                    *)
(***************************************************************************)
Keys == {0, MaxCoord} \X {0, MaxCoord}
Steps == 0..(MaxCoord + 1)

NoBounds(self) ==
  /\ self.min_x = None /\ self.max_x = None
  /\ self.min_y = None /\ self.max_y = None

\* key satisfies every bound that is set (inclusive)
WithinBounds(self, key) ==
  /\ self.min_x.tag = "Some" => x(key) >= self.min_x.val
  /\ self.max_x.tag = "Some" => x(key) <= self.max_x.val
  /\ self.min_y.tag = "Some" => y(key) >= self.min_y.val
  /\ self.max_y.tag = "Some" => y(key) <= self.max_y.val

NoWrites == [k \in Keys |-> None]

\* history: per key, the value of the most recent insert, if no remove or
\* clear came after it; kept while no bound is set
Track(w) == IF NoBounds(hg) THEN w ELSE written

InitHash ==
  /\ T = U8
  /\ debug = TRUE
  /\ hg = HashGrid_new
  /\ written = NoWrites
  /\ lg = <<>>
  /\ args = <<>>
  /\ ret = [op |-> "new", res |-> Unit]

Room(key) == key \in DOMAIN hg.data \/ Cardinality(DOMAIN hg.data) < MaxEntries

SetMinX ==
  \E v \in 0..MaxCoord :
    /\ hg' = set_min_x(hg, v)
    /\ written' = NoWrites
    /\ ret' = [op |-> "set_min_x", res |-> Unit]
    /\ UNCHANGED <<T, debug, lg, args>>

SetMaxX ==
  \E v \in 0..MaxCoord :
    /\ hg' = set_max_x(hg, v)
    /\ written' = NoWrites
    /\ ret' = [op |-> "set_max_x", res |-> Unit]
    /\ UNCHANGED <<T, debug, lg, args>>

SetMinY ==
  \E v \in 0..MaxCoord :
    /\ hg' = set_min_y(hg, v)
    /\ written' = NoWrites
    /\ ret' = [op |-> "set_min_y", res |-> Unit]
    /\ UNCHANGED <<T, debug, lg, args>>

SetMaxY ==
  \E v \in 0..MaxCoord :
    /\ hg' = set_max_y(hg, v)
    /\ written' = NoWrites
    /\ ret' = [op |-> "set_max_y", res |-> Unit]
    /\ UNCHANGED <<T, debug, lg, args>>

Insert ==
  \E key \in Keys, value \in Values :
    /\ Room(key)
    /\ LET r == HashGrid_insert(hg, key, value) IN
         /\ hg' = r.self
         /\ ret' = [op |-> "insert", key |-> key, value |-> value, res |-> r.ret]
    /\ written' = Track([written EXCEPT ![key] = Some(value)])
    /\ UNCHANGED <<T, debug, lg, args>>

InsertOrIgnore ==
  \E key \in Keys, value \in Values :
    /\ Room(key)
    /\ LET r == HashGrid_insert_or_ignore(hg, key, value) IN
         /\ hg' = r.self
         /\ ret' = [op |-> "insert_or_ignore", key |-> key, value |-> value,
                    res |-> r.ret]
    /\ written' = Track(IF written[key] = None
                        THEN [written EXCEPT ![key] = Some(value)]
                        ELSE written)
    /\ UNCHANGED <<T, debug, lg, args>>

Remove ==
  \E key \in Keys :
    /\ LET r == HashGrid_remove(hg, key) IN
         /\ hg' = r.self
         /\ ret' = [op |-> "remove", res |-> r.ret]
    /\ written' = Track([written EXCEPT ![key] = None])
    /\ UNCHANGED <<T, debug, lg, args>>

Clear ==
  /\ hg' = HashGrid_clear(hg)
  /\ ret' = [op |-> "clear", res |-> Unit]
  /\ written' = Track(NoWrites)
  /\ UNCHANGED <<T, debug, lg, args>>

Get ==
  \E key \in Keys :
    /\ ret' = [op |-> "get", res |-> HashGrid_get(hg, key)]
    /\ UNCHANGED <<T, debug, hg, written, lg, args>>

ContainsKey ==
  \E key \in Keys :
    /\ ret' = [op |-> "contains_key", res |-> HashGrid_contains_key(hg, key)]
    /\ UNCHANGED <<T, debug, hg, written, lg, args>>

UpN ==
  \E coord \in Keys, step \in Steps :
    /\ ret' = [op |-> "up_n", res |-> HashGrid_up_n(hg, coord, step)]
    /\ UNCHANGED <<T, debug, hg, written, lg, args>>

Matches ==
  \E key \in Keys, value \in Values :
    /\ ret' = [op |-> "matches", res |-> HashGrid_matches(hg, key, value)]
    /\ UNCHANGED <<T, debug, hg, written, lg, args>>

NextHash ==
  \/ SetMinX \/ SetMaxX \/ SetMinY \/ SetMaxY
  \/ Insert \/ InsertOrIgnore \/ Remove \/ Clear
  \/ Get \/ ContainsKey \/ UpN \/ Matches

SpecHash == InitHash /\ [][NextHash]_vars

(***************************************************************************)
(* Claims about HashGrid, checked under SpecHash.                          *)
(***************************************************************************)
\* C1: on a HashGrid with no bound set, after any sequence of insert,
\* remove and clear, get(k) is Some(v) exactly when the most recent
\* operation affecting k was insert(k, v), and None otherwise.
C1_GetReturnsLastInsert ==
  NoBounds(hg) => \A k \in Keys : HashGrid_get(hg, k) = written[k]

\* an insert has just succeeded next to another key that holds another value
C1_Witness ==
  /\ NoBounds(hg)
  /\ ret.op = "insert" /\ ret.res.tag = "Ok"
  /\ HashGrid_get(hg, ret.key) = Some(ret.value)
  /\ \E k \in DOMAIN hg.data : k # ret.key /\ hg.data[k] # ret.value

\* C2 as stated: insert_or_ignore(k, v2) on a key that holds v1 returns
\* success and leaves the grid unchanged, get(k) still being Some(v1); on
\* a key that holds no value it stores v2 at k.
C2_Original ==
  \A k \in Keys, v \in Values :
    LET r == HashGrid_insert_or_ignore(hg, k, v) IN
      /\ k \in DOMAIN hg.data =>
           /\ r.ret.tag = "Ok"
           /\ r.self = hg
           /\ HashGrid_get(r.self, k) = Some(hg.data[k])
      /\ k \notin DOMAIN hg.data =>
           /\ k \in DOMAIN r.self.data
           /\ r.self.data[k] = v

\* C2 as amended: the same for every key that satisfies the bounds set; a
\* key that violates a bound set makes insert_or_ignore fail (bounds
\* checking active) and leave the grid unchanged.
C2_Amended ==
  \A k \in Keys, v \in Values :
    LET r == HashGrid_insert_or_ignore(hg, k, v) IN
      IF debug /\ ~WithinBounds(hg, k)
      THEN r.ret.tag = "Err" /\ r.self = hg
      ELSE /\ r.ret = Ok(Unit)
           /\ k \in DOMAIN hg.data =>
                /\ r.self = hg
                /\ HashGrid_get(r.self, k) = Some(hg.data[k])
           /\ k \notin DOMAIN hg.data =>
                /\ DOMAIN r.self.data = DOMAIN hg.data \cup {k}
                /\ r.self.data[k] = v
                /\ \A k2 \in DOMAIN hg.data : r.self.data[k2] = hg.data[k2]
                /\ [r.self EXCEPT !.data = hg.data] = hg

\* insert_or_ignore has just returned Ok on a key that holds another value
\* than the one passed
C2_Witness ==
  /\ ret.op = "insert_or_ignore" /\ ret.res.tag = "Ok"
  /\ ret.key \in DOMAIN hg.data
  /\ hg.data[ret.key] # ret.value

\* every key present satisfies every bound set
AllWithin(self) == \A k \in DOMAIN self.data : WithinBounds(self, k)

BoundsOf(self) == <<self.min_x, self.max_x, self.min_y, self.max_y>>

\* an insert whose key violates a bound set fails and stores nothing
InsertOutsideFails ==
  \A k \in Keys, v \in Values :
    ~WithinBounds(hg, k) =>
      LET r == HashGrid_insert(hg, k, v) IN r.ret.tag = "Err" /\ r.self = hg

\* C5 as stated: with bounds checking active, after any sequence of bound
\* setters, insert, insert_or_ignore, remove and clear, a setter after
\* entries exist included, every key present satisfies every bound set,
\* and an insert whose key violates a bound set fails and stores nothing.
C5_Original == debug => AllWithin(hg) /\ InsertOutsideFails

\* C5 as amended: with bounds checking active, an insert whose key violates
\* a bound set fails and stores nothing, and every operation keeps the keys
\* present within the bounds set, except a bound setter called on a grid
\* that holds entries.
C5_Amended ==
  /\ [](debug => InsertOutsideFails)
  /\ [][(debug /\ AllWithin(hg)
          /\ (BoundsOf(hg') = BoundsOf(hg) \/ DOMAIN hg.data = {}))
        => AllWithin(hg')]_vars

\* an insert has just failed on a key outside a bound set, on a grid that
\* holds entries
C5_Witness ==
  /\ debug
  /\ ret.op = "insert" /\ ret.res.tag = "Err"
  /\ ~WithinBounds(hg, ret.key)
  /\ DOMAIN hg.data # {}
  /\ AllWithin(hg)

\* C7 as stated (HashGrid): up_n(coord, step) returns the value stored at
\* (coord.x, coord.y - step) when that coordinate is representable, within
\* the bounds and holds a value, and None otherwise, never panicking and
\* never reading a wrapped-around coordinate.
C7_Original ==
  ret.op = "up_n" =>
    /\ ret.res.tag # "Panic"
    /\ \A coord \in Keys, step \in Steps :
         LET d == y(coord) - step
             target == Coord(x(coord), d) IN
           HashGrid_up_n(hg, coord, step) =
             IF InT(d) /\ WithinBounds(hg, target) /\ target \in DOMAIN hg.data
             THEN Some(hg.data[target])
             ELSE None

\* The HashGrid half of C6: matches(key, value) returns a bounds error when
\* key violates a bound set, and otherwise Ok(true) exactly when the value
\* stored at key equals value, Ok(false) when it differs or key is absent.
C6_HashGridMatches ==
  \A k \in Keys, v \in Values :
    HashGrid_matches(hg, k, v).tag =
      (IF debug /\ ~WithinBounds(hg, k) THEN "Err" ELSE "Ok")
    /\ (WithinBounds(hg, k) =>
          HashGrid_matches(hg, k, v) =
            Ok(k \in DOMAIN hg.data /\ hg.data[k] = v))

(***************************************************************************)
(* LinearGrid                                                              *)
(***************************************************************************)
LinearGrid_new(width, height, initial) ==
  [data |-> [i \in 1..(width * height) |-> initial],
   width |-> width, height |-> height]

\* try_into::<usize>() fails on a negative component
get_index_from_coord(self, coord) ==
  IF x(coord) < 0 THEN None
  ELSE IF y(coord) < 0 THEN None
  ELSE Some(y(coord) * self.width + x(coord))

\* Vec::get(index), the Vec being indexed from 0
VecGet(data, index) == IF index < Len(data) THEN Some(data[index + 1]) ELSE None

LinearGrid_clear(self) == [self EXCEPT !.data = <<>>]

LinearGrid_check_bounds(self, key) == Ok(Unit)

LinearGrid_insert(self, key, value) ==
  LET index == get_index_from_coord(self, key) IN
  IF LinearGrid_check_bounds(self, key).tag = "Err"
  THEN [self |-> self, ret |-> LinearGrid_check_bounds(self, key)]
  ELSE IF index = None
  THEN [self |-> self, ret |-> Err("Coordinate out of bounds")]
  ELSE IF index.val < Len(self.data)
  THEN [self |-> [self EXCEPT !.data[index.val + 1] = value], ret |-> Ok(Unit)]
  ELSE [self |-> self, ret |-> Ok(Unit)]

LinearGrid_get(self, key) ==
  LET index == get_index_from_coord(self, key) IN
  IF LinearGrid_check_bounds(self, key).tag = "Err" THEN None
  ELSE IF index = None THEN None
  ELSE VecGet(self.data, index.val)

\* `coord.y() - step` is a plain subtraction
LinearGrid_up_n(self, coord, step) ==
  LET d == y(coord) - step IN
  IF ~InT(d) /\ debug THEN Panic
  ELSE LET new_coord == Coord(x(coord), Wrap(d))
           index == get_index_from_coord(self, new_coord) IN
       IF LinearGrid_check_bounds(self, new_coord).tag = "Err" THEN None
       ELSE IF index = None THEN None
       ELSE VecGet(self.data, index.val)

LinearGrid_matches(self, key, value) ==
  LET index == get_index_from_coord(self, key) IN
  IF LinearGrid_check_bounds(self, key).tag = "Err"
  THEN LinearGrid_check_bounds(self, key)
  ELSE IF index = None THEN Err("Coordinate out of bounds")
  ELSE IF index.val < Len(self.data)
  THEN Ok(self.data[index.val + 1] = value)
  ELSE Ok(FALSE)

(***************************************************************************)
(* LinearGrid runs: LinearGrid::new(width, height, initial), then any      *)
(* sequence of the Grid methods the backend implements.  Keys reach one    *)
(* cell past the grid on every side the type T can represent.              *)
(***************************************************************************)
LKeys == {k \in ((-1)..MaxDim) \X ((-1)..MaxDim) : InT(x(k)) /\ InT(y(k))}
LSteps == 0..MaxDim

\* the coordinate is a cell of the grid: 0 <= x < width and 0 <= y < height
InGrid(self, key) ==
  /\ 0 <= x(key) /\ x(key) < self.width
  /\ 0 <= y(key) /\ y(key) < self.height

InitLinear ==
  /\ T \in {U8, I16}
  /\ debug \in BOOLEAN
  /\ \E width \in 1..MaxDim, height \in 1..MaxDim, initial \in Values :
       lg = LinearGrid_new(width, height, initial)
  /\ hg = HashGrid_new
  /\ written = NoWrites
  /\ args = <<>>
  /\ ret = [op |-> "new", res |-> Unit]

LInsert ==
  \E key \in LKeys, value \in Values :
    /\ LET r == LinearGrid_insert(lg, key, value) IN
         /\ lg' = r.self
         /\ ret' = [op |-> "insert", key |-> key, value |-> value, res |-> r.ret]
    /\ UNCHANGED <<T, debug, hg, written, args>>

LClear ==
  /\ lg' = LinearGrid_clear(lg)
  /\ ret' = [op |-> "clear", res |-> Unit]
  /\ UNCHANGED <<T, debug, hg, written, args>>

LGet ==
  \E key \in LKeys :
    /\ ret' = [op |-> "get", key |-> key, res |-> LinearGrid_get(lg, key)]
    /\ UNCHANGED <<T, debug, hg, written, lg, args>>

LUpN ==
  \E coord \in LKeys, step \in LSteps :
    /\ ret' = [op |-> "up_n", key |-> coord, step |-> step,
               res |-> LinearGrid_up_n(lg, coord, step)]
    /\ UNCHANGED <<T, debug, hg, written, lg, args>>

LMatches ==
  \E key \in LKeys, value \in Values :
    /\ ret' = [op |-> "matches", key |-> key, value |-> value,
               res |-> LinearGrid_matches(lg, key, value)]
    /\ UNCHANGED <<T, debug, hg, written, lg, args>>

NextLinear == LInsert \/ LClear \/ LGet \/ LUpN \/ LMatches

SpecLinear == InitLinear /\ [][NextLinear]_vars

(***************************************************************************)
(* Claims about LinearGrid, checked under SpecLinear.                      *)
(***************************************************************************)
\* C3 as stated: insert with a coordinate outside the grid (x >= width,
\* y >= height or a negative component) returns a failure and leaves every
\* cell unchanged.
C3_Original ==
  [][(ret'.op = "insert" /\ ~InGrid(lg, ret'.key))
     => (ret'.res.tag = "Err" /\ lg' = lg)]_vars

\* C4 as stated: in every state reached from new(W, H, initial) by insert
\* and clear the backing sequence holds W*H cells, get returns a value for
\* every coordinate of the grid, and an insert there is read back by get.
C4_Original ==
  /\ Len(lg.data) = lg.width * lg.height
  /\ \A key \in LKeys :
       InGrid(lg, key) =>
         /\ LinearGrid_get(lg, key).tag = "Some"
         /\ \A v \in Values :
              LinearGrid_get(LinearGrid_insert(lg, key, v).self, key) = Some(v)

\* C6 as stated (LinearGrid): matches(key, value) returns a bounds error
\* when key is outside the grid, and otherwise Ok(true) exactly when the
\* value stored at key equals value.
C6_Original ==
  ret.op = "matches" =>
    IF ~InGrid(lg, ret.key)
    THEN ret.res.tag = "Err"
    ELSE ret.res = Ok(LinearGrid_get(lg, ret.key) = Some(ret.value))

(***************************************************************************)
(* Coord: the directional moves and the collinearity test                  *)
(***************************************************************************)
\* Option::unwrap_or
unwrap_or(opt, default) == IF opt.tag = "Some" THEN opt.val ELSE default

\* v is the exact result of `a + b`, `a - b` or `a * b`: with overflow
\* checks on (debug build) a result outside T panics
Overflows(v) == debug /\ ~InT(v)

\* CheckedSub::checked_sub
checked_sub(a, b) == IF InT(a - b) THEN Some(a - b) ELSE None

\* CheckedAdd::checked_add
checked_add(a, b) == IF InT(a + b) THEN Some(a + b) ELSE None

Coord_up_n(self, n_opt, min_y) ==
  LET n == unwrap_or(n_opt, 1)
      new_y == checked_sub(self[2], n) IN
  IF min_y.tag = "Some" /\ self[2] < n THEN None
  ELSE IF min_y.tag = "Some" /\ Overflows(self[2] - n) THEN Panic
  ELSE IF min_y.tag = "Some" /\ Wrap(self[2] - n) < min_y.val THEN None
  ELSE IF new_y = None THEN None
  ELSE Some(Coord(self[1], new_y.val))

\* down_n with the arithmetic of up_n: checked_sub in place of checked_add
Coord_down_n_subtracts(self, n_opt, max_y) ==
  LET n == unwrap_or(n_opt, 1)
      new_y == checked_sub(self[2], n) IN
  IF max_y.tag = "Some" /\ Overflows(self[2] + n) THEN Panic
  ELSE IF max_y.tag = "Some" /\ Wrap(self[2] + n) > max_y.val THEN None
  ELSE IF new_y = None THEN None
  ELSE Some(Coord(self[1], new_y.val))

Coord_down_n(self, n_opt, max_y) ==
  LET n == unwrap_or(n_opt, 1)
      new_y == checked_add(self[2], n) IN
  IF max_y.tag = "Some" /\ Overflows(self[2] + n) THEN Panic
  ELSE IF max_y.tag = "Some" /\ Wrap(self[2] + n) > max_y.val THEN None
  ELSE IF new_y = None THEN None
  ELSE Some(Coord(self[1], new_y.val))

Coord_left_n(self, n_opt, min_x) ==
  LET n == unwrap_or(n_opt, 1)
      new_x == checked_sub(self[1], n) IN
  IF min_x.tag = "Some" /\ self[1] < n THEN None
  ELSE IF min_x.tag = "Some" /\ Overflows(self[1] - n) THEN Panic
  ELSE IF min_x.tag = "Some" /\ Wrap(self[1] - n) < min_x.val THEN None
  ELSE IF new_x = None THEN None
  ELSE Some(Coord(new_x.val, self[2]))

Coord_right_n(self, n_opt, max_x) ==
  LET n == unwrap_or(n_opt, 1)
      new_x == checked_add(self[1], n) IN
  IF max_x.tag = "Some" /\ Overflows(self[1] + n) THEN Panic
  ELSE IF max_x.tag = "Some" /\ Wrap(self[1] + n) > max_x.val THEN None
  ELSE IF new_x = None THEN None
  ELSE Some(Coord(new_x.val, self[2]))

\* move_*: `*self = self.up_n(None, None).unwrap()`; unwrap panics on None
\* before the assignment, so self keeps its value
Coord_move_up(self) ==
  LET r == Coord_up_n(self, None, None) IN
  IF r.tag = "Some" THEN [self |-> r.val, ret |-> Unit]
  ELSE [self |-> self, ret |-> Panic]

Coord_move_down(self) ==
  LET r == Coord_down_n(self, None, None) IN
  IF r.tag = "Some" THEN [self |-> r.val, ret |-> Unit]
  ELSE [self |-> self, ret |-> Panic]

Coord_move_left(self) ==
  LET r == Coord_left_n(self, None, None) IN
  IF r.tag = "Some" THEN [self |-> r.val, ret |-> Unit]
  ELSE [self |-> self, ret |-> Panic]

Coord_move_right(self) ==
  LET r == Coord_right_n(self, None, None) IN
  IF r.tag = "Some" THEN [self |-> r.val, ret |-> Unit]
  ELSE [self |-> self, ret |-> Panic]

Ret(v) == [tag |-> "Ret", val |-> v]

\* the loop over coords[2..], from the i-th point on (coords is indexed from 1)
RECURSIVE LinearFrom(_, _, _, _)
LinearFrom(coords, i, ref_dx, ref_dy) ==
  IF i > Len(coords) THEN Ret(TRUE)
  ELSE LET x1 == x(coords[1])
           y1 == y(coords[1])
           dx == x(coords[i]) - x1
           dy == y(coords[i]) - y1 IN
       IF Overflows(dx) \/ Overflows(dy) THEN Panic
       ELSE IF Overflows(ref_dx * Wrap(dy)) THEN Panic
       ELSE IF Overflows(ref_dy * Wrap(dx)) THEN Panic
       ELSE IF Wrap(ref_dx * Wrap(dy)) # Wrap(ref_dy * Wrap(dx)) THEN Ret(FALSE)
       ELSE LinearFrom(coords, i + 1, ref_dx, ref_dy)

points_are_linear(coords) ==
  IF Len(coords) < 3 THEN Ret(TRUE)
  ELSE LET ref_dx == x(coords[2]) - x(coords[1])
           ref_dy == y(coords[2]) - y(coords[1]) IN
       IF Overflows(ref_dx) \/ Overflows(ref_dy) THEN Panic
       ELSE LinearFrom(coords, 3, Wrap(ref_dx), Wrap(ref_dy))

(***************************************************************************)
(* Coord runs: a coordinate, a step and a limit, then any sequence of the  *)
(* moves.  up_n, down_n, left_n and right_n return a new coordinate;       *)
(* move_up, move_down, move_left and move_right replace the coordinate in  *)
(* place, and are followed while it stays among the sampled values of T.   *)
(***************************************************************************)
\* the values of T within Near of 0, of T::MIN and of T::MAX
Samples(t) ==
  {v \in (t.lo..(t.lo + Near)) \cup ((0 - Near)..Near) \cup ((t.hi - Near)..t.hi) :
     t.lo <= v /\ v <= t.hi}

OptionOf(S) == {None} \cup {Some(v) : v \in S}

InitCoord ==
  /\ T \in {U8, I16}
  /\ debug \in BOOLEAN
  /\ \E c \in Samples(T) \X Samples(T), n \in OptionOf(Samples(T)),
        limit \in OptionOf(Samples(T)) :
       args = [c |-> c, n |-> n, limit |-> limit]
  /\ hg = HashGrid_new
  /\ written = NoWrites
  /\ lg = <<>>
  /\ ret = [op |-> "new", res |-> Unit]

CUpN ==
  /\ ret' = [op |-> "up_n", res |-> Coord_up_n(args.c, args.n, args.limit)]
  /\ UNCHANGED <<T, debug, hg, written, lg, args>>

CDownN ==
  /\ ret' = [op |-> "down_n", res |-> Coord_down_n(args.c, args.n, args.limit)]
  /\ UNCHANGED <<T, debug, hg, written, lg, args>>

CLeftN ==
  /\ ret' = [op |-> "left_n", res |-> Coord_left_n(args.c, args.n, args.limit)]
  /\ UNCHANGED <<T, debug, hg, written, lg, args>>

CRightN ==
  /\ ret' = [op |-> "right_n", res |-> Coord_right_n(args.c, args.n, args.limit)]
  /\ UNCHANGED <<T, debug, hg, written, lg, args>>

\* c.up_n(n, None) and, on its result, down_n(n, None)
CUpDown ==
  /\ LET u == Coord_up_n(args.c, args.n, None) IN
       ret' = [op |-> "up_n.down_n", first |-> u,
               res |-> IF u.tag = "Some" THEN Coord_down_n(u.val, args.n, None)
                       ELSE u]
  /\ UNCHANGED <<T, debug, hg, written, lg, args>>

\* c.left_n(n, None) and, on its result, right_n(n, None)
CLeftRight ==
  /\ LET l == Coord_left_n(args.c, args.n, None) IN
       ret' = [op |-> "left_n.right_n", first |-> l,
               res |-> IF l.tag = "Some" THEN Coord_right_n(l.val, args.n, None)
                       ELSE l]
  /\ UNCHANGED <<T, debug, hg, written, lg, args>>

\* the coordinate is one of the sampled ones
Sampled(c) == c \in Samples(T) \X Samples(T)

CMoveUp ==
  /\ LET r == Coord_move_up(args.c) IN
       /\ Sampled(r.self)
       /\ args' = [args EXCEPT !.c = r.self]
       /\ ret' = [op |-> "move_up", res |-> r.ret]
  /\ UNCHANGED <<T, debug, hg, written, lg>>

CMoveDown ==
  /\ LET r == Coord_move_down(args.c) IN
       /\ Sampled(r.self)
       /\ args' = [args EXCEPT !.c = r.self]
       /\ ret' = [op |-> "move_down", res |-> r.ret]
  /\ UNCHANGED <<T, debug, hg, written, lg>>

CMoveLeft ==
  /\ LET r == Coord_move_left(args.c) IN
       /\ Sampled(r.self)
       /\ args' = [args EXCEPT !.c = r.self]
       /\ ret' = [op |-> "move_left", res |-> r.ret]
  /\ UNCHANGED <<T, debug, hg, written, lg>>

CMoveRight ==
  /\ LET r == Coord_move_right(args.c) IN
       /\ Sampled(r.self)
       /\ args' = [args EXCEPT !.c = r.self]
       /\ ret' = [op |-> "move_right", res |-> r.ret]
  /\ UNCHANGED <<T, debug, hg, written, lg>>

NextCoord ==
  \/ CUpN \/ CDownN \/ CLeftN \/ CRightN \/ CUpDown \/ CLeftRight
  \/ CMoveUp \/ CMoveDown \/ CMoveLeft \/ CMoveRight

SpecCoord == InitCoord /\ [][NextCoord]_vars

(***************************************************************************)
(* Claims about the moves of Coord, checked under SpecCoord.               *)
(***************************************************************************)
\* the step of the call: n, or 1 when no step is given
StepOf == unwrap_or(args.n, 1)

\* C8 as stated: for every step n <= c.y, with no limit, c.up_n(n)
\* succeeds and down_n(n) on its result yields Some(c); the same for
\* left_n then right_n and every n <= c.x.
C8_Original ==
  /\ (ret.op = "up_n.down_n" /\ StepOf <= y(args.c))
       => (ret.first.tag = "Some" /\ ret.res = Some(args.c))
  /\ (ret.op = "left_n.right_n" /\ StepOf <= x(args.c))
       => (ret.first.tag = "Some" /\ ret.res = Some(args.c))

\* C8 as amended: the same for every step n with 0 <= n <= c.y
\* (respectively 0 <= n <= c.x).
C8_Amended ==
  /\ (ret.op = "up_n.down_n" /\ 0 <= StepOf /\ StepOf <= y(args.c))
       => (ret.first.tag = "Some" /\ ret.res = Some(args.c))
  /\ (ret.op = "left_n.right_n" /\ 0 <= StepOf /\ StepOf <= x(args.c))
       => (ret.first.tag = "Some" /\ ret.res = Some(args.c))

\* up_n then down_n has just returned to a coordinate it really left
C8_Witness ==
  /\ ret.op = "up_n.down_n"
  /\ 0 < StepOf /\ StepOf <= y(args.c)
  /\ ret.first = Some(Coord(x(args.c), y(args.c) - StepOf))
  /\ ret.res = Some(args.c)

\* the result C10 states for the move just made: the moved coordinate when
\* its moved component is representable in T and within the limit
\* (>= min for up_n and left_n, <= max for down_n and right_n), else None
C10_Expected ==
  LET c == args.c
      moved == CASE ret.op = "up_n" -> y(c) - StepOf
                 [] ret.op = "down_n" -> y(c) + StepOf
                 [] ret.op = "left_n" -> x(c) - StepOf
                 [] ret.op = "right_n" -> x(c) + StepOf
      within == \/ args.limit = None
                \/ /\ args.limit # None
                   /\ IF ret.op \in {"up_n", "left_n"}
                      THEN moved >= args.limit.val
                      ELSE moved <= args.limit.val IN
  IF InT(moved) /\ within
  THEN Some(IF ret.op \in {"up_n", "down_n"}
            THEN Coord(x(c), moved) ELSE Coord(moved, y(c)))
  ELSE None

\* C10 as stated: every move returns Some(moved coordinate) exactly when
\* the moved component is representable and within the limit, and None
\* otherwise; the limit check never overflows or panics.
C10_Original ==
  ret.op \in {"up_n", "down_n", "left_n", "right_n"} => ret.res = C10_Expected

(***************************************************************************)
(* points_are_linear runs: a list of points, then the test.                *)
(***************************************************************************)
Points == (0..MaxPt) \X (0..MaxPt)

SeqsUpTo(S, n) == UNION {[1..k -> S] : k \in 0..n}

InitPoints ==
  /\ T \in {U8, I16}
  /\ debug \in BOOLEAN
  /\ \E coords \in SeqsUpTo(Points, MaxPoints) : args = [coords |-> coords]
  /\ hg = HashGrid_new
  /\ written = NoWrites
  /\ lg = <<>>
  /\ ret = [op |-> "new", res |-> Unit]

PointsAreLinear ==
  /\ ret' = [op |-> "points_are_linear", res |-> points_are_linear(args.coords)]
  /\ UNCHANGED <<T, debug, hg, written, lg, args>>

NextPoints == PointsAreLinear

SpecPoints == InitPoints /\ [][NextPoints]_vars

(***************************************************************************)
(* Claims about points_are_linear, checked under SpecPoints.               *)
(***************************************************************************)
\* twice the signed area of the triangle a, b, c, over the integers
Cross(a, b, c) == (x(b) - x(a)) * (y(c) - y(a)) - (y(b) - y(a)) * (x(c) - x(a))

\* all the points lie on one common line
Collinear(coords) ==
  \A i, j, k \in 1..Len(coords) : Cross(coords[i], coords[j], coords[k]) = 0

\* C9 as stated: points_are_linear returns true for fewer than 3 points and
\* otherwise true exactly when all the points lie on one common line,
\* whatever their order, without overflow or underflow.
C9_Original ==
  ret.op = "points_are_linear" =>
    ret.res = Ret(Len(args.coords) < 3 \/ Collinear(args.coords))

====
